---- MODULE Spec2Model ----
(***************************************************************************)
(* Model of the skybook events handler: the POST /process handler          *)
(* (processRequest), the validator (validateData), the persister           *)
(* (saveData, over fs.mkdir and fs.writeFile) and the error middleware     *)
(* (errorHandler), with several requests in flight on one event loop.     *)
(***************************************************************************)
EXTENDS Integers, Sequences, FiniteSets, TLC

\* ------------------------------------------------------------- bounds
\* Longest string carried by a `url` or `fileData.fileName` member.
MaxStrLen == 2
\* Number of POST /process requests the server receives.
NumReqs == 2
\* Number of milliseconds the wall clock may advance while the server runs.
MaxTicks == 1
\* The wall clock, in milliseconds, when the server starts.
StartClock == 998

\* ------------------------------------------------------- JSON values
\* Characters of the strings of the model; the first two are white space
\* for String.prototype.trim.
Char == {" ", "\n", "h"}
Whitespace == {" ", "\n"}

Strings == UNION {[1..k -> Char] : k \in 0..MaxStrLen}

\* A member value: absent (undefined), null, a number or a string.  The
\* text s is empty unless the value is a string.
Absent == [t |-> "absent", s |-> <<>>]
Null == [t |-> "null", s |-> <<>>]
Num == [t |-> "number", s |-> <<>>]
Str(s) == [t |-> "string", s |-> s]

Members == {Absent, Null, Num} \cup {Str(s) : s \in Strings}

\* The `fileData` member: absent, null, or an object with a fileName member.
NoFileData == [t |-> "absent", fileName |-> Absent]
NullFileData == [t |-> "null", fileName |-> Absent]
FileData(fn) == [t |-> "object", fileName |-> fn]

\* A deserialized request body: a primitive, null, an array, or an object
\* with the members url, fileData and key (`key: 'value'`, present or not).
Primitive(k) == [kind |-> k, url |-> Absent, fileData |-> NoFileData, hasKey |-> FALSE]
Obj(url, fd, hasKey) == [kind |-> "object", url |-> url, fileData |-> fd, hasKey |-> hasKey]

NonObjects == {Primitive(k) : k \in {"undefined", "null", "number", "string", "boolean", "array"}}

Objects == {Obj(u, fd, k) : u \in Members,
                            fd \in {NoFileData, NullFileData, FileData(Str(<<"h">>))},
                            k \in BOOLEAN}

JsonValues == NonObjects \cup Objects

\* ------------------------------------------------------ string helpers
RECURSIVE TrimStart(_)
TrimStart(s) ==
    IF s = <<>> THEN <<>>
    ELSE IF Head(s) \in Whitespace THEN TrimStart(Tail(s)) ELSE s

RECURSIVE TrimEnd(_)
TrimEnd(s) ==
    IF s = <<>> THEN <<>>
    ELSE IF s[Len(s)] \in Whitespace THEN TrimEnd(SubSeq(s, 1, Len(s) - 1)) ELSE s

\* String.prototype.trim
Trim(s) == TrimEnd(TrimStart(s))

\* The typeof operator: null and arrays are 'object'.
TypeOf(data) ==
    IF data.kind \in {"null", "array", "object"} THEN "object" ELSE data.kind

\* ------------------------------------------------------- validateData
\* Faulty variant of validateOutcome: the url is not trimmed before its
\* length is taken.
validateOutcomeNoTrim(data) ==
    IF TypeOf(data) # "object" \/ data.kind = "null" THEN "false"
    ELSE IF data.url.t = "string" /\ Len(data.url.s) > 0 THEN "true" ELSE "false"

\* The outcome of validateData(data): "true", "false", or "TypeError" when
\* the destructuring `const { url } = data` meets null or undefined.
validateOutcome(data) ==
    IF TypeOf(data) # "object" \/ data.kind = "null" THEN "false"
    ELSE IF data.kind \in {"null", "undefined"} THEN "TypeError"
    ELSE IF data.url.t = "string" /\ Len(Trim(data.url.s)) > 0 THEN "true" ELSE "false"

validateData(data) == validateOutcome(data) = "true"

\* ------------------------------------------------------ serialization
\* JSON.stringify(data, null, 2) as a sequence of tokens: punctuation, member
\* names, and the characters of each string, one token each (indentation
\* and line breaks between tokens are left out).
ValueText(v) ==
    CASE v.t = "string" -> <<"\"">> \o v.s \o <<"\"">>
      [] v.t = "number" -> <<"7">>
      [] OTHER -> <<"null">>

MemberText(name, v) == <<name, ":">> \o ValueText(v)

FileDataText(fd) ==
    IF fd.t = "null" THEN <<"null">>
    ELSE <<"{">>
         \o (IF fd.fileName.t # "absent" THEN MemberText("fileName", fd.fileName) ELSE <<>>)
         \o <<"}">>

ObjectMembers(data) ==
    (IF data.url.t # "absent" THEN <<MemberText("url", data.url)>> ELSE <<>>)
    \o (IF data.fileData.t # "absent"
        THEN << <<"fileData", ":">> \o FileDataText(data.fileData) >> ELSE <<>>)
    \o (IF data.hasKey THEN << <<"key", ":", "\"", "v", "\"">> >> ELSE <<>>)

RECURSIVE Join(_)
Join(parts) ==
    IF parts = <<>> THEN <<>>
    ELSE IF Len(parts) = 1 THEN parts[1]
    ELSE parts[1] \o <<",">> \o Join(Tail(parts))

Serialize(data) ==
    CASE data.kind = "object" -> <<"{">> \o Join(ObjectMembers(data)) \o <<"}">>
      [] data.kind = "array" -> <<"[", "]">>
      [] data.kind = "number" -> <<"7">>
      [] data.kind = "string" -> <<"\"", "\"">>
      [] data.kind = "boolean" -> <<"true">>
      [] OTHER -> <<"null">>

\* ---------------------------------------------------------- file name
Digits == <<"0", "1", "2", "3", "4", "5", "6", "7", "8", "9">>

\* Number.prototype.toString, base ten
RECURSIVE NumberToString(_)
NumberToString(n) ==
    IF n < 10 THEN <<Digits[n + 1]>> ELSE NumberToString(n \div 10) \o <<Digits[(n % 10) + 1]>>

\* String.prototype.padStart
RECURSIVE PadStart(_, _, _)
PadStart(s, width, fill) ==
    IF Len(s) >= width THEN s ELSE PadStart(<<fill>> \o s, width, fill)

\* `now` is the wall clock in milliseconds.  The date part stands for
\* toLocaleDateString('en-GB') with '/' replaced by '-': the calendar
\* conversion is carried by the day count.
FormattedDate(now) == <<"D">> \o NumberToString(now \div 86400000)

\* toTimeString().split(' ')[0] with ':' replaced by '-': HH-mm-ss
FormattedTime(now) ==
    LET secs == now \div 1000 IN
    PadStart(NumberToString((secs \div 3600) % 24), 2, "0") \o <<"-">>
    \o PadStart(NumberToString((secs \div 60) % 60), 2, "0") \o <<"-">>
    \o PadStart(NumberToString(secs % 60), 2, "0")

\* getMilliseconds().toString().padStart(3, '0')
Milliseconds(now) == PadStart(NumberToString(now % 1000), 3, "0")

\* Faulty variant of TimestampName: the milliseconds are left out.
TimestampNameNoMillis(now) ==
    <<"data-">> \o FormattedDate(now) \o <<"_">> \o FormattedTime(now) \o <<".json">>

\* `data-${formattedDate}_${time}-${milliseconds}.json`
TimestampName(now) ==
    <<"data-">> \o FormattedDate(now) \o <<"_">> \o FormattedTime(now)
    \o <<"-">> \o Milliseconds(now) \o <<".json">>

\* data.fileData?.fileName && typeof ... === 'string' && ....trim().length > 0
HasFileNameOverride(data) ==
    /\ data.fileData.t = "object"
    /\ data.fileData.fileName.t = "string"
    /\ Len(data.fileData.fileName.s) > 0
    /\ Len(Trim(data.fileData.fileName.s)) > 0

\* The file name saveData writes to, inside the folder.
FileNameFor(data, now) ==
    IF HasFileNameOverride(data) THEN data.fileData.fileName.s ELSE TimestampName(now)

\* ------------------------------------------------------------ responses
ValidationMessage == "Data is not in the correct format"
SaveMessage == "Failed to save data"

NoResponse == [status |-> 0, json |-> FALSE, body |-> ""]
SuccessResponse == [status |-> 200, json |-> FALSE, body |-> "Success"]
InvalidInputResponse == [status |-> 400, json |-> TRUE, body |-> "Invalid input data"]
SaveFailedResponse == [status |-> 500, json |-> TRUE, body |-> "Failed to save the provided data"]
InternalErrorResponse == [status |-> 500, json |-> TRUE, body |-> "Internal Server Error"]

\* Faulty variant of errorHandler: the final else branch is missing.
errorHandlerNoDefault(message) ==
    IF message = ValidationMessage THEN InvalidInputResponse
    ELSE IF message = SaveMessage THEN SaveFailedResponse
    ELSE NoResponse

\* The response errorHandler sends for an error with this message.
errorHandler(message) ==
    IF message = ValidationMessage THEN InvalidInputResponse
    ELSE IF message = SaveMessage THEN SaveFailedResponse
    ELSE InternalErrorResponse

\* Faulty variant of saveDataError: the catch block rethrows what it caught.
saveDataErrorRethrow(cause) == cause

\* The error saveData's catch block throws for an underlying failure.
saveDataError(cause) == SaveMessage

\* --------------------------------------------------------------- state
VARIABLES
    req,         \* per request: position in processRequest/saveData and its record
    dirState,    \* SAVE_FOLDER on disk: "absent", "dir", or "file" (a regular file)
    files,       \* the files inside SAVE_FOLDER: name -> content
    lastWriter,  \* name -> the request whose write to it completed last (0: none)
    clock,       \* the last reading of the wall clock (new Date()), in milliseconds
    input,       \* validateData called on its own: the argument
    outcome      \* validateData called on its own: "pending" or the outcome

vars == <<req, dirState, files, lastWriter, clock, input, outcome>>
fsVars == <<dirState, files, lastWriter>>
unitVars == <<input, outcome>>

Reqs == 1..NumReqs

\* The bodies POST /process receives: express.json() hands over objects and
\* arrays only.
RequestBodies ==
    {Obj(Str(<<"h">>), NoFileData, FALSE),
     Obj(Str(<<"h">>), FileData(Str(<<" ">>)), FALSE),
     Obj(Str(<<"h">>), FileData(Str(<<"h">>)), FALSE),
     Obj(Str(<<"h">>), FileData(Str(<<"h">>)), TRUE),
     Obj(Absent, NoFileData, TRUE),
     Obj(Str(<<" ">>), NoFileData, FALSE)}

\* A request before it arrives.  pc is its position: "idle", then "mkdir",
\* "open", "write" (awaiting that step of saveData), "written" (writeFile
\* settled, processRequest not yet resumed) and "done" (answered).  body is
\* req.body, name the file name saveData resolved, stamp the clock reading
\* taken for a timestamp name (0 without one).  failedAt, cause and err
\* record where the request failed, the underlying message and the message
\* passed to next.  sendCalls, nextCalls and saveCalls count the calls of
\* res.send('Success'), next and saveData.  newFile tells that the open
\* created the file, afterWrite is the file's content when the request's
\* write completed, inSequence that every earlier request had been answered
\* when this one arrived.
IdleRequest ==
    [pc |-> "idle", body |-> Primitive("undefined"), name |-> <<>>, stamp |-> 0,
     failedAt |-> "none", cause |-> "", err |-> "", response |-> NoResponse,
     sendCalls |-> 0, nextCalls |-> 0, saveCalls |-> 0,
     newFile |-> FALSE, afterWrite |-> <<>>, inSequence |-> FALSE]

\* The server has started and nothing has arrived.  The folder does not
\* exist yet, or its path is taken by a regular file; the folder existing
\* already is the state any later request finds.
Init ==
    /\ req = [r \in Reqs |-> IdleRequest]
    /\ dirState \in {"absent", "file"}
    /\ files = <<>>
    /\ lastWriter = <<>>
    /\ clock = StartClock
    /\ input = Primitive("undefined")
    /\ outcome = "pending"

\* Requests are numbered in the order they arrive.
Arrives(r) == req[r].pc = "idle" /\ (IF r = 1 THEN TRUE ELSE req[r - 1].pc # "idle")

\* Every request that arrived before r has been answered.
Quiet(r) == \A q \in Reqs : q < r => req[q].pc = "done"

\* next(error): the error reaches errorHandler, which sends the response.
Forwarded(rec, op, cause, message) ==
    [rec EXCEPT !.pc = "done", !.failedAt = op, !.cause = cause, !.err = message,
                !.nextCalls = @ + 1, !.response = errorHandler(message)]

\* saveData's catch block, then processRequest's: the underlying failure is
\* logged, replaced by saveDataError and passed to next.
SaveFailed(r, op, cause) ==
    req' = [req EXCEPT ![r] = Forwarded(@, op, cause, saveDataError(cause))]

\* express.json() rejects the request (malformed JSON): the error goes to
\* errorHandler and processRequest is not invoked.
bodyParserError(r) ==
    /\ Arrives(r)
    /\ req' = [req EXCEPT ![r] = Forwarded(@, "parse", "", "Unexpected token")]
    /\ UNCHANGED <<fsVars, clock, unitVars>>

\* Faulty variant of processRequest: the failed validation is reported to
\* next but the handler goes on to saveData.
processRequestNoThrow(r, data) ==
    /\ Arrives(r)
    /\ req' = [req EXCEPT ![r] =
          IF validateOutcome(data) = "true"
          THEN [@ EXCEPT !.pc = "mkdir", !.body = data, !.saveCalls = @ + 1,
                         !.inSequence = Quiet(r)]
          ELSE [@ EXCEPT !.pc = "mkdir", !.body = data, !.saveCalls = @ + 1,
                         !.inSequence = Quiet(r),
                         !.failedAt = "validate", !.err = ValidationMessage,
                         !.nextCalls = @ + 1,
                         !.response = errorHandler(ValidationMessage)]]
    /\ UNCHANGED <<fsVars, clock, unitVars>>

\* processRequest up to its first await: validateData, then either the throw
\* caught and passed to next, or the call of saveData, which calls fs.mkdir.
processRequest(r, data) ==
    /\ Arrives(r)
    /\ req' = [req EXCEPT ![r] =
          CASE validateOutcome(data) = "true" ->
                 [@ EXCEPT !.pc = "mkdir", !.body = data, !.saveCalls = @ + 1,
                           !.inSequence = Quiet(r)]
            [] validateOutcome(data) = "false" ->
                 Forwarded([@ EXCEPT !.body = data], "validate", "", ValidationMessage)
            [] OTHER ->
                 Forwarded([@ EXCEPT !.body = data], "validate", "", "TypeError")]
    /\ UNCHANGED <<fsVars, clock, unitVars>>

\* fs.mkdir(folder, {recursive: true}) resolves; saveData picks the file name
\* and calls fs.writeFile.  Without an override it reads the clock, which has
\* advanced to `now`.
mkdirResolves(r, now) ==
    /\ req[r].pc = "mkdir"
    /\ dirState # "file"
    /\ dirState' = "dir"
    /\ IF HasFileNameOverride(req[r].body) THEN now = clock ELSE TRUE
    /\ clock' = now
    /\ req' = [req EXCEPT ![r] =
          [@ EXCEPT !.pc = "open",
                    !.name = FileNameFor(req[r].body, now),
                    !.stamp = IF HasFileNameOverride(req[r].body) THEN 0 ELSE now]]
    /\ UNCHANGED <<files, lastWriter, unitVars>>

\* Faulty variant of mkdirRejects: the rejection is swallowed and saveData
\* goes on to the write.
mkdirRejectsContinues(r) ==
    /\ req[r].pc = "mkdir"
    /\ req' = [req EXCEPT ![r] =
          [@ EXCEPT !.pc = "open", !.failedAt = "mkdir",
                    !.cause = IF dirState = "file" THEN "EEXIST" ELSE "EACCES",
                    !.name = FileNameFor(req[r].body, clock),
                    !.stamp = IF HasFileNameOverride(req[r].body) THEN 0 ELSE clock]]
    /\ UNCHANGED <<fsVars, clock, unitVars>>

\* fs.mkdir rejects: the path is a regular file, or the system refuses.
mkdirRejects(r) ==
    /\ req[r].pc = "mkdir"
    /\ SaveFailed(r, "mkdir", IF dirState = "file" THEN "EEXIST" ELSE "EACCES")
    /\ UNCHANGED <<fsVars, clock, unitVars>>

\* Faulty variant of openResolves: the file is opened without truncation.
openResolvesNoTruncate(r) ==
    /\ req[r].pc = "open"
    /\ files' = IF req[r].name \in DOMAIN files THEN files ELSE (req[r].name :> <<>>) @@ files
    /\ lastWriter' = IF req[r].name \in DOMAIN files THEN lastWriter
                     ELSE (req[r].name :> 0) @@ lastWriter
    /\ req' = [req EXCEPT ![r] =
          [@ EXCEPT !.pc = "write", !.newFile = (req[r].name \notin DOMAIN files)]]
    /\ UNCHANGED <<dirState, clock, unitVars>>

\* fs.writeFile, first step: open with flag 'w' creates or truncates the file.
openResolves(r) ==
    /\ req[r].pc = "open"
    /\ files' = (req[r].name :> <<>>) @@ files
    /\ lastWriter' = IF req[r].name \in DOMAIN files THEN lastWriter
                     ELSE (req[r].name :> 0) @@ lastWriter
    /\ req' = [req EXCEPT ![r] =
          [@ EXCEPT !.pc = "write", !.newFile = (req[r].name \notin DOMAIN files)]]
    /\ UNCHANGED <<dirState, clock, unitVars>>

openRejects(r) ==
    /\ req[r].pc = "open"
    /\ SaveFailed(r, "open", "EACCES")
    /\ UNCHANGED <<fsVars, clock, unitVars>>

\* write(2) through a fresh descriptor: the bytes land at offset 0 and
\* whatever the file holds beyond them stays.
WriteAt(old, bytes) == bytes \o SubSeq(old, Len(bytes) + 1, Len(old))

\* fs.writeFile, second step: the serialized payload is written and the
\* descriptor closed.
writeResolves(r) ==
    /\ req[r].pc = "write"
    /\ files' = [files EXCEPT ![req[r].name] = WriteAt(@, Serialize(req[r].body))]
    /\ lastWriter' = [lastWriter EXCEPT ![req[r].name] = r]
    /\ req' = [req EXCEPT ![r] =
          [@ EXCEPT !.pc = "written", !.afterWrite = files'[req[r].name]]]
    /\ UNCHANGED <<dirState, clock, unitVars>>

writeRejects(r) ==
    /\ req[r].pc = "write"
    /\ SaveFailed(r, "write", "ENOSPC")
    /\ UNCHANGED <<fsVars, clock, unitVars>>

\* Faulty variant of processRequestResumes: saveData is not awaited.
processRequestEarlySend(r) ==
    /\ req[r].pc \in {"write", "written"}
    /\ req' = [req EXCEPT ![r] =
          [@ EXCEPT !.pc = "done", !.sendCalls = @ + 1, !.response = SuccessResponse]]
    /\ UNCHANGED <<fsVars, clock, unitVars>>

\* processRequest after `await saveData(...)`: log and res.send('Success').
processRequestResumes(r) ==
    /\ req[r].pc = "written"
    /\ req' = [req EXCEPT ![r] =
          [@ EXCEPT !.pc = "done", !.sendCalls = @ + 1, !.response = SuccessResponse]]
    /\ UNCHANGED <<fsVars, clock, unitVars>>

\* The readings the wall clock can give from now on.
Readings == clock..(StartClock + MaxTicks)

Next ==
    \/ \E r \in Reqs, data \in RequestBodies : processRequest(r, data)
    \/ \E r \in Reqs : bodyParserError(r)
    \/ \E r \in Reqs, now \in Readings : mkdirResolves(r, now)
    \/ \E r \in Reqs : mkdirRejects(r)
    \/ \E r \in Reqs : openResolves(r)
    \/ \E r \in Reqs : openRejects(r)
    \/ \E r \in Reqs : writeResolves(r)
    \/ \E r \in Reqs : writeRejects(r)
    \/ \E r \in Reqs : processRequestResumes(r)

Spec == Init /\ [][Next]_vars

\* ------------------------------------------- validateData on its own
InitValidate ==
    /\ req = [r \in Reqs |-> IdleRequest]
    /\ dirState = "absent"
    /\ files = <<>>
    /\ lastWriter = <<>>
    /\ clock = StartClock
    /\ input \in JsonValues
    /\ outcome = "pending"

\* One call validateData(input).
Validate ==
    /\ outcome = "pending"
    /\ outcome' = validateOutcome(input)
    /\ UNCHANGED <<req, fsVars, clock, input>>

NextValidate == Validate

SpecValidate == InitValidate /\ [][NextValidate]_vars

\* ------------------------------------------------------------ readings
Done(r) == req[r].pc = "done"

\* processRequest was invoked for the request (the body parser let it through).
Invoked(r) == req[r].pc # "idle" /\ req[r].failedAt # "parse"

\* saveData failed for the request: fs.mkdir or fs.writeFile rejected.
SaveFailure(r) == req[r].failedAt \in {"mkdir", "open", "write"}

\* The request's fs.writeFile opened its file.
Opened(r) ==
    \/ req[r].pc \in {"write", "written"}
    \/ Done(r) /\ req[r].saveCalls > 0 /\ req[r].failedAt \in {"none", "write"}

\* saveData resolved for the request.
Saved(r) == Done(r) /\ req[r].saveCalls > 0 /\ req[r].failedAt = "none"

\* The request's fs.mkdir resolved.
PastMkdir(r) ==
    \/ req[r].pc \in {"open", "write", "written"}
    \/ Done(r) /\ req[r].saveCalls > 0 /\ req[r].failedAt \in {"none", "open", "write"}

\* The folder, absent when the server started, is there through r's call
\* alone.
MadeDir(r) == PastMkdir(r) /\ dirState = "dir" /\ \A q \in Reqs \ {r} : ~PastMkdir(q)

UsesOverride(r) == HasFileNameOverride(req[r].body)

\* The requests other than r whose writeFile opened the file r resolved to.
OtherOpeners(r) == {q \in Reqs \ {r} : Opened(q) /\ req[q].name = req[r].name}

IsPrefix(p, s) == Len(p) <= Len(s) /\ SubSeq(s, 1, Len(p)) = p

FailureResponses == {InvalidInputResponse, SaveFailedResponse, InternalErrorResponse}

\* --------------------------------------------------------------- claims

\* C1: a request whose body validateData rejects never reaches saveData,
\* touches neither the directory nor any file, and is answered 400 with
\* {"error":"Invalid input data"}.
RejectedNeverPersists ==
    \A r \in Reqs :
        (Invoked(r) /\ ~validateData(req[r].body)) =>
            /\ req[r].saveCalls = 0
            /\ Done(r)
            /\ req[r].name = <<>> /\ ~PastMkdir(r) /\ ~req[r].newFile
            /\ \A n \in DOMAIN lastWriter : lastWriter[n] # r
            /\ req[r].response = InvalidInputResponse
            /\ req[r].sendCalls = 0

\* A rejected request has been answered while another request's file is on disk.
RejectedNeverPersistsWitness ==
    \E r \in Reqs, q \in Reqs :
        /\ Invoked(r) /\ Done(r) /\ ~validateData(req[r].body)
        /\ req[r].response = InvalidInputResponse
        /\ Saved(q) /\ req[q].name \in DOMAIN files

\* C2 as stated: an accepted request whose saveData succeeds is answered
\* 200 'Success' after its write, and has left exactly one new file whose
\* content is its payload.
SuccessLeavesOneNewFile ==
    \A r \in Reqs :
        Saved(r) =>
            /\ req[r].response = SuccessResponse
            /\ req[r].newFile
            /\ req[r].afterWrite = Serialize(req[r].body)

\* C2 amended: an accepted request whose saveData succeeds is answered 200
\* 'Success', only after its write has completed; the write put the complete
\* serialized payload at the start of the file at its resolved name; the file
\* is new and holds exactly the payload when no other request resolved to
\* that name, and otherwise an existing file was written over.
SuccessAfterWrite ==
    \A r \in Reqs :
        /\ Saved(r) => req[r].sendCalls = 1
        /\ req[r].sendCalls > 0 =>
            /\ req[r].response = SuccessResponse
            /\ validateData(req[r].body)
            /\ req[r].afterWrite # <<>>
            /\ IsPrefix(Serialize(req[r].body), req[r].afterWrite)
            /\ req[r].name \in DOMAIN files
            /\ req[r].newFile \/ OtherOpeners(r) # {}
            /\ OtherOpeners(r) = {} =>
                  req[r].newFile /\ files[req[r].name] = Serialize(req[r].body)

\* A request was answered 'Success' after writing over an existing file.
SuccessAfterWriteWitness ==
    \E r \in Reqs :
        /\ req[r].sendCalls = 1 /\ req[r].response = SuccessResponse
        /\ ~req[r].newFile
        /\ req[r].afterWrite = Serialize(req[r].body)

\* C3: whenever fs.mkdir or fs.writeFile fails, saveData reports 'Failed to
\* save data' whatever the cause, and the request is answered 500 with
\* {"error":"Failed to save the provided data"}: not the validation response,
\* and without the underlying message.
SaveFailureIsOpaque ==
    \A r \in Reqs :
        SaveFailure(r) =>
            /\ req[r].err = SaveMessage
            /\ req[r].err # req[r].cause
            /\ req[r].response = SaveFailedResponse
            /\ req[r].response # InvalidInputResponse
            /\ req[r].response.body # req[r].cause
            /\ req[r].nextCalls = 1

\* Two requests failed for different underlying causes and got the same answer.
SaveFailureIsOpaqueWitness ==
    \E r \in Reqs, q \in Reqs :
        /\ SaveFailure(r) /\ SaveFailure(q)
        /\ req[r].cause = "EACCES" /\ req[q].cause = "ENOSPC"
        /\ req[r].response = SaveFailedResponse /\ req[q].response = SaveFailedResponse

\* The requests whose writeFile opened the file named n.
Writers(n) == {r \in Reqs : Opened(r) /\ req[r].name = n}

\* C4 as stated: every file corresponds to exactly one accepted request, and
\* a file has several writers only when all of them fell back to the
\* timestamp name within the same millisecond.
OverwriteOnlyBySameMillisecond ==
    \A n \in DOMAIN files :
        /\ Writers(n) # {}
        /\ \A r \in Writers(n) : validateData(req[r].body)
        /\ Cardinality(Writers(n)) > 1 =>
              \A r \in Writers(n), q \in Writers(n) :
                  ~UsesOverride(r) /\ req[r].stamp = req[q].stamp

\* C4 amended: every file was written by accepted requests only, and an
\* existing file is written over only by a request that resolves to the name
\* of an earlier accepted request: through a fileData.fileName override that
\* repeats a name, or through two timestamp names generated from the same
\* clock reading.
OverwriteOnlyBySameName ==
    /\ \A n \in DOMAIN files :
          Writers(n) # {} /\ \A r \in Writers(n) : validateData(req[r].body)
    /\ \A r \in Reqs :
          (Opened(r) /\ ~req[r].newFile) =>
              \E q \in OtherOpeners(r) :
                  \/ UsesOverride(r) \/ UsesOverride(q)
                  \/ req[q].stamp = req[r].stamp
    /\ \A r \in Reqs, q \in Reqs :
          (Opened(r) /\ Opened(q) /\ ~UsesOverride(r) /\ ~UsesOverride(q)
             /\ req[r].stamp # req[q].stamp) => req[r].name # req[q].name

\* A completed request with an override wrote over the file of an earlier one.
OverwriteOnlyBySameNameWitness ==
    \E r \in Reqs :
        /\ Saved(r) /\ UsesOverride(r) /\ ~req[r].newFile
        /\ \E q \in OtherOpeners(r) : Saved(q)

\* The value is a non-null object whose url is a string with at least one
\* character that is not white space.
HasUsableUrl(data) ==
    /\ data.kind \notin {"undefined", "null", "number", "string", "boolean"}
    /\ data.url.t = "string"
    /\ \E i \in 1..Len(data.url.s) : data.url.s[i] \notin Whitespace

ValidateAcceptsAnyObject ==
    (outcome # "pending" /\ input.kind = "object") => outcome = "true"

\* C7: two saveData calls in sequence with the same fileData.fileName
\* override both succeed (no fault of the file system given), and the folder
\* then holds one file under that name whose content is the complete
\* serialization of the second payload.
SameOverrideOverwrites ==
    \A r \in Reqs, q \in Reqs :
        ( /\ r # q
          /\ Done(r) /\ Done(q) /\ r < q /\ req[q].inSequence
          /\ UsesOverride(r) /\ UsesOverride(q)
          /\ req[r].body.fileData.fileName = req[q].body.fileData.fileName
          /\ req[r].cause \notin {"EACCES", "ENOSPC"}
          /\ req[q].cause \notin {"EACCES", "ENOSPC"}
          /\ dirState # "file"
          /\ OtherOpeners(q) = {r} ) =>
            /\ Saved(r) /\ Saved(q)
            /\ req[q].name = req[q].body.fileData.fileName.s
            /\ req[q].name \in DOMAIN files
            /\ files[req[q].name] = Serialize(req[q].body)
            /\ req[q].afterWrite = Serialize(req[q].body)
            /\ Cardinality({n \in DOMAIN files : n = req[q].name}) = 1
            /\ (\A o \in Reqs \ {r, q} : ~Opened(o)) => DOMAIN files = {req[q].name}

\* The second of two calls with the same override has written a payload
\* shorter than the first one's.
SameOverrideOverwritesWitness ==
    \E r \in Reqs, q \in Reqs :
        /\ r < q /\ Saved(r) /\ Saved(q) /\ req[q].inSequence
        /\ UsesOverride(r) /\ UsesOverride(q) /\ req[r].name = req[q].name
        /\ Len(Serialize(req[q].body)) < Len(Serialize(req[r].body))
        /\ files[req[q].name] = Serialize(req[q].body)

\* C8 as stated: a completed saveData call has either fully succeeded
\* (folder present, file holding the complete payload) or fully failed,
\* leaving nothing of its own on disk.
SaveAllOrNothing ==
    \A r \in Reqs :
        (Done(r) /\ req[r].saveCalls > 0) =>
            \/ /\ req[r].failedAt = "none"
               /\ dirState = "dir"
               /\ req[r].afterWrite = Serialize(req[r].body)
            \/ /\ SaveFailure(r)
               /\ req[r].err = SaveMessage
               /\ ~MadeDir(r)
               /\ ~Opened(r)

\* C8 amended: a saveData call either succeeds, with the folder present and
\* the complete payload written at the start of its file (the whole file when
\* no other call resolved to the name), or reports the storage failure; a
\* failure of mkdir never attempts the write and leaves no file, while a
\* failure of the write keeps the folder mkdir made and the file the open
\* created or truncated.
SaveFailsWithoutRollback ==
    \A r \in Reqs :
        /\ Saved(r) =>
              /\ dirState = "dir"
              /\ req[r].name \in DOMAIN files
              /\ IsPrefix(Serialize(req[r].body), req[r].afterWrite)
              /\ OtherOpeners(r) = {} => files[req[r].name] = Serialize(req[r].body)
        /\ SaveFailure(r) => Done(r) /\ req[r].err = SaveMessage
        /\ req[r].failedAt = "mkdir" =>
              /\ Done(r)
              /\ req[r].name = <<>> /\ ~PastMkdir(r) /\ ~req[r].newFile
              /\ \A n \in DOMAIN lastWriter : lastWriter[n] # r
        /\ req[r].failedAt \in {"open", "write"} => dirState = "dir"
        /\ req[r].failedAt = "write" => req[r].name \in DOMAIN files

\* A call failed in the write after making the folder and creating the file,
\* which is left empty.
SaveFailsWithoutRollbackWitness ==
    \E r \in Reqs :
        /\ Done(r) /\ req[r].failedAt = "write" /\ req[r].err = SaveMessage
        /\ MadeDir(r) /\ req[r].newFile
        /\ files[req[r].name] = <<>>

\* C9 as stated: two accepted requests that fall back to the same timestamp
\* name are both answered 200 'Success', and once both have completed the
\* file holds the payload of the request whose write finished last.
LastWriterWins ==
    \A r \in Reqs, q \in Reqs :
        ( /\ r # q
          /\ Done(r) /\ Done(q)
          /\ req[r].saveCalls > 0 /\ req[q].saveCalls > 0
          /\ ~UsesOverride(r) /\ ~UsesOverride(q)
          /\ req[r].name = req[q].name /\ req[r].name # <<>>
          /\ req[r].cause = "" /\ req[q].cause = ""
          /\ OtherOpeners(r) = {q} ) =>
            /\ req[r].response = SuccessResponse
            /\ req[q].response = SuccessResponse
            /\ req[r].name \in DOMAIN files
            /\ lastWriter[req[r].name] \in {r, q}
            /\ files[req[r].name] = Serialize(req[lastWriter[req[r].name]].body)

\* C10: a processRequest invocation ends in exactly one outcome: either
\* res.send('Success') once and next never, or next(error) once and res.send
\* never; saveData is called at most once; and every error passed to next
\* gets one of the three failure responses from errorHandler.
ExactlyOneOutcome ==
    \A r \in Reqs :
        /\ req[r].saveCalls <= 1
        /\ req[r].sendCalls + req[r].nextCalls <= 1
        /\ Done(r) <=> (req[r].sendCalls + req[r].nextCalls = 1)
        /\ req[r].sendCalls = 1 => req[r].response = SuccessResponse
        /\ req[r].nextCalls = 1 => req[r].response \in FailureResponses
        /\ ~Done(r) => req[r].response = NoResponse
        /\ (req[r].nextCalls = 1 /\ req[r].err = ValidationMessage) =>
              req[r].response = InvalidInputResponse
        /\ (req[r].nextCalls = 1 /\ req[r].err = SaveMessage) =>
              req[r].response = SaveFailedResponse
        /\ (req[r].nextCalls = 1 /\ req[r].err \notin {ValidationMessage, SaveMessage}) =>
              req[r].response = InternalErrorResponse

\* One request ended in res.send('Success') and another in next(error).
ExactlyOneOutcomeWitness ==
    \E r \in Reqs, q \in Reqs :
        /\ Done(r) /\ Invoked(r) /\ req[r].sendCalls = 1 /\ req[r].nextCalls = 0
        /\ Done(q) /\ Invoked(q) /\ req[q].sendCalls = 0 /\ req[q].nextCalls = 1
        /\ req[q].saveCalls = 1

====
